---- MODULE Spec2Model ----
(***************************************************************************)
(* A model of seastream.SeaStream: a wrapper around one binary stream that  *)
(* reads sized types, writes objects that render themselves to bytes, and   *)
(* closes the wrapped stream when used as a context manager.                *)
(*                                                                          *)
(* The wrapped streams (io.BytesIO, the files open() returns) are modelled  *)
(* by their content, position and closed flag.  Every call SeaStream makes  *)
(* on a stream or on open() is logged in last.calls, so that "exactly one   *)
(* call, with this argument" is a property of the state.                    *)
(*                                                                          *)
(* A run follows one underlying stream, the caller's own io.BytesIO or the  *)
(* file __init__ opens, and the SeaStream instances that wrap it.           *)
(***************************************************************************)
EXTENDS Integers, Sequences

\* ------------------------------------------------------------- bounds
MaxLen == 2        \* longest content of a stream
MaxStreams == 2    \* SeaStream instances constructed

VARIABLES handles, streams, last
vars == <<handles, streams, last>>

\* ------------------------------------------------------------- values
\* A Python value: k is its kind, b its bytes (or the characters of a str,
\* as code points), n its integer payload, t a type or path name.
Val(k, b, n, t) == [k |-> k, b |-> b, n |-> n, t |-> t]
NoneVal == Val("None", <<>>, 0, "")
BytesVal(b) == Val("bytes", b, 0, "")
IntVal(n) == Val("int", <<>>, n, "")
StrVal(chars) == Val("str", chars, 0, "")
TypeVal(t) == Val("type", <<>>, 0, t)
ObjVal(t, n) == Val("obj", <<>>, n, t)
StreamVal(h) == Val("stream", <<>>, h, "")
SelfVal(i) == Val("SeaStream", <<>>, i, "")
PathVal(k) == Val(k, <<>>, 0, "/foo")

Range(s) == { s[x] : x \in DOMAIN s }
Min(a, b) == IF a < b THEN a ELSE b

\* "rb", "wb" ; "rw" carries no 'b' ; 3 is no string
BinaryModes == { StrVal(<<114, 98>>), StrVal(<<119, 98>>) }
TextModes == { StrVal(<<114, 119>>) }
NonStrModes == { IntVal(3) }
Modes == BinaryModes \cup TextModes \cup NonStrModes

VALID_PATH_TYPES == {"bytes", "str", "PathLike"}

\* ------------------------------------------------------------- wrapped streams
\* One call made on a stream or on open: the method, the stream, the
\* argument (and open's mode), what it returned and what it raised.
Call(m, h, arg, mode, ret, err) ==
    [m |-> m, h |-> h, arg |-> arg, mode |-> mode, ret |-> ret, err |-> err]

\* The outcome of one call: the streams after it and the logged call.
Out(hs, call) == [hs |-> hs, call |-> call]

\* stream.read(n): the next n bytes, or all that are left when n < 0 or
\* fewer than n are left; ValueError on a closed stream.
stream_read(hs, h, n) ==
    LET s == hs[h]
        avail == Len(s.content) - s.pos
        k == IF n < 0 THEN avail ELSE Min(n, avail)
        data == SubSeq(s.content, s.pos + 1, s.pos + k)
    IN IF s.closed
       THEN Out(hs, Call("read", h, IntVal(n), NoneVal, NoneVal, "ValueError"))
       ELSE Out([hs EXCEPT ![h].pos = s.pos + k],
                Call("read", h, IntVal(n), NoneVal, BytesVal(data), ""))

\* stream.write(v): v's bytes replace the content from the position on and
\* the count is returned; ValueError on a closed stream, TypeError when v
\* is not bytes-like.
stream_write(hs, h, v) ==
    LET s == hs[h]
        n == Len(v.b)
        tail == SubSeq(s.content, s.pos + n + 1, Len(s.content))
        newc == SubSeq(s.content, 1, s.pos) \o v.b \o tail
    IN IF s.closed
       THEN Out(hs, Call("write", h, v, NoneVal, NoneVal, "ValueError"))
       ELSE IF v.k # "bytes"
       THEN Out(hs, Call("write", h, v, NoneVal, NoneVal, "TypeError"))
       ELSE Out([hs EXCEPT ![h].content = newc, ![h].pos = s.pos + n],
                Call("write", h, v, NoneVal, IntVal(n), ""))

\* stream.close(): the stream is closed; closing a closed stream is allowed.
stream_close(hs, h) ==
    Out([hs EXCEPT ![h].closed = TRUE],
        Call("close", h, NoneVal, NoneVal, NoneVal, ""))

NewHandle(content, pos) == [content |-> content, pos |-> pos, closed |-> FALSE]

\* open(base, mode=mode): a new stream on the file's content, or OSError.
\* "w" truncates the file, "a" starts at its end.
open(hs, base, mode, content, ok) ==
    LET c == IF 119 \in Range(mode.b) THEN <<>> ELSE content
        p == IF 97 \in Range(mode.b) THEN Len(c) ELSE 0
    IN IF ok
       THEN Out(Append(hs, NewHandle(c, p)),
                Call("open", Len(hs) + 1, base, mode, StreamVal(Len(hs) + 1), ""))
       ELSE Out(hs, Call("open", 0, base, mode, NoneVal, "OSError"))

\* ------------------------------------------------------------- types
\* TypeName is the docstring's readable and writable type: _struct.size 2,
\* from_bytes unpacks two bytes big-endian, __bytes__ packs them.
\* DummySerializable is the tests' type: size 3, from_bytes gives "foo",
\* __bytes__ gives b"foo".  int has from_bytes but no _struct; NoFromBytes
\* has a _struct and no from_bytes.
Types == {"TypeName", "DummySerializable", "int", "NoFromBytes"}
has_from_bytes(t) == t \in {"TypeName", "DummySerializable", "int"}
has_struct(t) == t \in {"TypeName", "DummySerializable", "NoFromBytes"}
struct_size(t) == IF t = "DummySerializable" THEN 3 ELSE 2
Foo == <<102, 111, 111>>

from_bytes(t, b) ==
    IF t = "DummySerializable" THEN [err |-> "", val |-> StrVal(Foo)]
    ELSE IF Len(b) # 2 THEN [err |-> "struct.error", val |-> NoneVal]
    ELSE [err |-> "", val |-> ObjVal(t, b[1] * 256 + b[2])]

\* hasattr(obj, "__bytes__"): instances of the two types have it.  (bytes
\* itself has it from Python 3.11 on, where bytes(b) is b: the call made on
\* the stream is the same either way.)
has_bytes(obj) == obj.k = "obj"
bytes(obj) ==
    IF obj.t = "DummySerializable" THEN BytesVal(Foo)
    ELSE BytesVal(<<obj.n \div 256, obj.n % 256>>)

\* ------------------------------------------------------------- SeaStream
\* The result of one method: the streams after it, the calls it made on
\* streams and on open, the exception it raised ("" for none), its value.
Res(hs, calls, error, result) ==
    [hs |-> hs, calls |-> calls, error |-> error, result |-> result]

NoAttr == Val("unset", <<>>, 0, "")
NewSelf == [wrapped_stream |-> NoAttr, opened_stream |-> FALSE]

\* The three ways __init__ ends on a path: with a validation error, with
\* the error open raised, or with the opened stream stored and flagged.
init_raise(hs, error) ==
    [res |-> Res(hs, <<>>, error, NoneVal), self |-> NewSelf]
init_open(hs, base, mode, content, ok) ==
    LET o == open(hs, base, mode, content, ok)
    IN IF o.call.err # ""
       THEN [res |-> Res(o.hs, <<o.call>>, o.call.err, NoneVal), self |-> NewSelf]
       ELSE [res |-> Res(o.hs, <<o.call>>, "", NoneVal),
             self |-> [wrapped_stream |-> o.call.ret, opened_stream |-> TRUE]]
init_wrap(hs, base, opened) ==
    [res |-> Res(hs, <<>>, "", NoneVal),
     self |-> [wrapped_stream |-> base, opened_stream |-> opened]]

\* Faulty variant: the check for the binary marker is missing.
SeaStream_init_unchecked(hs, base, mode, content, ok) ==
    IF base.k \in VALID_PATH_TYPES
    THEN IF mode.k # "str"
         THEN init_raise(hs, "TypeError")
         ELSE init_open(hs, base, mode, content, ok)
    ELSE init_wrap(hs, base, FALSE)

\* Faulty variant: the flag is set after the if, for a passed stream too.
SeaStream_init_flagged(hs, base, mode, content, ok) ==
    IF base.k \in VALID_PATH_TYPES
    THEN IF mode.k # "str"
         THEN init_raise(hs, "TypeError")
         ELSE IF 98 \notin Range(mode.b)
         THEN init_raise(hs, "ValueError")
         ELSE init_open(hs, base, mode, content, ok)
    ELSE init_wrap(hs, base, TRUE)

\* __init__: the attributes of self when it returns or raises.
SeaStream_init(hs, base, mode, content, ok) ==
    IF base.k \in VALID_PATH_TYPES
    THEN IF mode.k # "str"
         THEN init_raise(hs, "TypeError")
         ELSE IF 98 \notin Range(mode.b)
         THEN init_raise(hs, "ValueError")
         ELSE init_open(hs, base, mode, content, ok)
    ELSE init_wrap(hs, base, FALSE)

\* Faulty variant: write returns None, as its annotation says.
SeaStream_write_none(hs, self, obj) ==
    LET c == IF has_bytes(obj)
             THEN stream_write(hs, self.wrapped_stream.n, bytes(obj))
             ELSE stream_write(hs, self.wrapped_stream.n, obj)
    IN Res(c.hs, <<c.call>>, c.call.err, NoneVal)

SeaStream_write(hs, self, obj) ==
    LET c == IF has_bytes(obj)
             THEN stream_write(hs, self.wrapped_stream.n, bytes(obj))
             ELSE stream_write(hs, self.wrapped_stream.n, obj)
    IN Res(c.hs, <<c.call>>, c.call.err, c.call.ret)

\* return self.wrapped_stream.read(arg)
read_int(hs, self, arg) ==
    LET c == stream_read(hs, self.wrapped_stream.n, arg.n)
    IN Res(c.hs, <<c.call>>, c.call.err, c.call.ret)

\* return arg.from_bytes(self.wrapped_stream.read(arg._struct.size)):
\* arg.from_bytes is looked up first, then arg._struct.size is evaluated,
\* then the read is made and its bytes are decoded.
read_type(hs, self, arg) ==
    IF ~has_from_bytes(arg.t)
    THEN Res(hs, <<>>, "AttributeError", NoneVal)
    ELSE IF ~has_struct(arg.t)
    THEN Res(hs, <<>>, "AttributeError", NoneVal)
    ELSE LET c == stream_read(hs, self.wrapped_stream.n, struct_size(arg.t))
             d == from_bytes(arg.t, c.call.ret.b)
         IN IF c.call.err # ""
            THEN Res(c.hs, <<c.call>>, c.call.err, NoneVal)
            ELSE Res(c.hs, <<c.call>>, d.err, d.val)

\* Faulty variant: a short read of a type is completed by a second read.
SeaStream_read_retry(hs, self, arg) ==
    IF arg.k = "int" THEN read_int(hs, self, arg)
    ELSE IF arg.k = "type"
    THEN LET r == read_type(hs, self, arg)
             got == IF r.calls = <<>> THEN <<>> ELSE r.calls[1].ret.b
             c == stream_read(r.hs, self.wrapped_stream.n,
                              struct_size(arg.t) - Len(got))
             d == from_bytes(arg.t, got \o c.call.ret.b)
         IN IF r.calls = <<>> \/ r.calls[1].err # ""
               \/ Len(got) = struct_size(arg.t)
            THEN r
            ELSE Res(c.hs, r.calls \o <<c.call>>, d.err, d.val)
    ELSE Res(hs, <<>>, "TypeError", NoneVal)

\* Faulty variant: after reading n bytes, one more byte is read to look for the end.
SeaStream_read_twice(hs, self, arg) ==
    IF arg.k = "int"
    THEN LET r == read_int(hs, self, arg)
             c == stream_read(r.hs, self.wrapped_stream.n, 1)
         IN IF r.error # "" THEN r
            ELSE Res(c.hs, r.calls \o <<c.call>>, r.error, r.result)
    ELSE IF arg.k = "type" THEN read_type(hs, self, arg)
    ELSE Res(hs, <<>>, "TypeError", NoneVal)

\* Faulty variant: any other argument reads to the end, like read().
SeaStream_read_lenient(hs, self, arg) ==
    IF arg.k = "int" THEN read_int(hs, self, arg)
    ELSE IF arg.k = "type" THEN read_type(hs, self, arg)
    ELSE read_int(hs, self, IntVal(-1))

\* Faulty variant: a read that reaches the end of the stream closes it.
SeaStream_read_autoclose(hs, self, arg) ==
    IF arg.k = "int"
    THEN LET r == read_int(hs, self, arg)
             s == r.hs[self.wrapped_stream.n]
             c == stream_close(r.hs, self.wrapped_stream.n)
         IN IF r.error # "" \/ s.pos < Len(s.content) THEN r
            ELSE Res(c.hs, r.calls \o <<c.call>>, r.error, r.result)
    ELSE IF arg.k = "type" THEN read_type(hs, self, arg)
    ELSE Res(hs, <<>>, "TypeError", NoneVal)

SeaStream_read(hs, self, arg) ==
    IF arg.k = "int" THEN read_int(hs, self, arg)
    ELSE IF arg.k = "type" THEN read_type(hs, self, arg)
    ELSE Res(hs, <<>>, "TypeError", NoneVal)

\* __enter__ is "pass": it returns None.
SeaStream_enter(i) == NoneVal

\* Faulty variant: only a stream this instance opened is closed.
SeaStream_exit_owned(hs, self) ==
    LET c == stream_close(hs, self.wrapped_stream.n)
    IN IF self.opened_stream
       THEN Res(c.hs, <<c.call>>, "", NoneVal)
       ELSE Res(hs, <<>>, "", NoneVal)

\* __exit__ closes the wrapped stream and returns None.
SeaStream_exit(hs, self) ==
    LET c == stream_close(hs, self.wrapped_stream.n)
    IN Res(c.hs, <<c.call>>, "", NoneVal)

\* ------------------------------------------------------------- state
\* handles: the underlying streams that exist, by index; a run follows one
\* underlying stream, the caller's own or the file __init__ opens.
\* streams: the SeaStream instances, each with its attributes, whether a
\* with-block on it is running, and the name its with-statement bound.
\* last: the operation just performed and what its caller observed.
NoOp == [op |-> "", i |-> 0, arg |-> NoneVal, mode |-> NoneVal, error |-> "",
         result |-> NoneVal, calls |-> <<>>, self |-> NewSelf, exc |-> FALSE]
Op(op, i, arg, r) ==
    [NoOp EXCEPT !.op = op, !.i = i, !.arg = arg, !.error = r.error,
                 !.result = r.result, !.calls = r.calls]

Init ==
    /\ handles = <<>>
    /\ streams = <<>>
    /\ last = NoOp

InitContents == { <<>>, [x \in 1..MaxLen |-> x] }
Bases == { PathVal(k) : k \in VALID_PATH_TYPES }
             \cup { StreamVal(h) : h \in 1..Len(handles) }
Selectors == { IntVal(-1), IntVal(1), IntVal(6) } \cup { TypeVal(t) : t \in Types }
                 \cup { StrVal(Foo) }
WriteArgs == { BytesVal(<<7>>), ObjVal("TypeName", 258),
               ObjVal("DummySerializable", 0), StrVal(Foo) }
\* What open() may find and do is a choice only where __init__ calls it.
Opens(base, mode) ==
    base.k \in VALID_PATH_TYPES /\ mode.k = "str" /\ 98 \in Range(mode.b)
FileContents(base, mode) == IF Opens(base, mode) THEN InitContents ELSE {<<>>}
OpenOutcomes(base, mode) == IF Opens(base, mode) THEN BOOLEAN ELSE {TRUE}
BodySelectors == { IntVal(-1), TypeVal("TypeName") }
BodyWriteArgs == { BytesVal(<<7>>), ObjVal("TypeName", 258) }
Rendered(obj) == IF has_bytes(obj) THEN bytes(obj) ELSE obj
Fits(i, obj) ==
    handles[streams[i].wrapped_stream.n].pos + Len(Rendered(obj).b) <= MaxLen

\* The caller creates a stream of its own: io.BytesIO(content).
BytesIO(content) ==
    /\ handles = <<>>
    /\ handles' = Append(handles, NewHandle(content, 0))
    /\ last' = [NoOp EXCEPT !.op = "BytesIO"]
    /\ UNCHANGED streams

\* The caller closes a stream itself: stream.close().
Close(h) ==
    /\ handles' = stream_close(handles, h).hs
    /\ last' = [NoOp EXCEPT !.op = "close", !.arg = StreamVal(h)]
    /\ UNCHANGED streams

\* SeaStream(base, mode)
Construct(base, mode, content, ok) ==
    LET r == SeaStream_init(handles, base, mode, content, ok)
    IN /\ Len(streams) < MaxStreams
       /\ base.k \in VALID_PATH_TYPES => handles = <<>>
       /\ handles' = r.res.hs
       /\ streams' = IF r.res.error = ""
                     THEN Append(streams,
                                 [wrapped_stream |-> r.self.wrapped_stream,
                                  opened_stream |-> r.self.opened_stream,
                                  scope |-> "out", as_target |-> NoneVal])
                     ELSE streams
       /\ last' = [Op("__init__", Len(streams) + 1, base, r.res)
                      EXCEPT !.mode = mode, !.self = r.self]

\* stream.read(arg), on a name bound to the instance
Read(i, arg) ==
    LET r == SeaStream_read(handles, streams[i], arg)
    IN /\ handles' = r.hs
       /\ last' = Op("read", i, arg, r)
       /\ UNCHANGED streams

\* stream.write(obj), on a name bound to the instance
Write(i, obj) ==
    LET r == SeaStream_write(handles, streams[i], obj)
    IN /\ Fits(i, obj)
       /\ handles' = r.hs
       /\ last' = Op("write", i, obj, r)
       /\ UNCHANGED streams

\* with stream as s:   the statement calls __enter__ and binds s to its value
WithEnter(i) ==
    /\ streams[i].scope = "out"
    /\ streams' = [streams EXCEPT ![i].scope = "in",
                                  ![i].as_target = SeaStream_enter(i)]
    /\ last' = [NoOp EXCEPT !.op = "__enter__", !.i = i,
                            !.result = SeaStream_enter(i)]
    /\ UNCHANGED handles

\* s.write(obj) in the with-block, on the name the statement bound
WithBodyWrite(i, obj) ==
    LET s == streams[i].as_target
        r == IF s.k = "SeaStream"
             THEN SeaStream_write(handles, streams[s.n], obj)
             ELSE Res(handles, <<>>, "AttributeError", NoneVal)
    IN /\ streams[i].scope = "in"
       /\ Fits(i, obj)
       /\ handles' = r.hs
       /\ last' = Op("s.write", i, obj, r)
       /\ UNCHANGED streams

\* s.read(arg) in the with-block, on the name the statement bound
WithBodyRead(i, arg) ==
    LET s == streams[i].as_target
        r == IF s.k = "SeaStream"
             THEN SeaStream_read(handles, streams[s.n], arg)
             ELSE Res(handles, <<>>, "AttributeError", NoneVal)
    IN /\ streams[i].scope = "in"
       /\ handles' = r.hs
       /\ last' = Op("s.read", i, arg, r)
       /\ UNCHANGED streams

\* The with-block ends, normally or with an exception propagating (exc):
\* the statement calls __exit__, whose None lets the exception go on.
WithExit(i, exc) ==
    LET r == SeaStream_exit(handles, streams[i])
    IN /\ streams[i].scope = "in"
       /\ handles' = r.hs
       /\ streams' = [streams EXCEPT ![i].scope = "out",
                                     ![i].as_target = NoneVal]
       /\ last' = [Op("__exit__", i, NoneVal, r) EXCEPT !.exc = exc]

Next ==
    \/ \E c \in InitContents : BytesIO(c)
    \/ \E h \in 1..Len(handles) : Close(h)
    \/ \E base \in Bases, mode \in Modes :
          \E c \in FileContents(base, mode), ok \in OpenOutcomes(base, mode) :
             Construct(base, mode, c, ok)
    \/ \E i \in 1..Len(streams), arg \in Selectors : Read(i, arg)
    \/ \E i \in 1..Len(streams), obj \in WriteArgs : Write(i, obj)
    \/ \E i \in 1..Len(streams) : WithEnter(i)
    \/ \E i \in 1..Len(streams), obj \in BodyWriteArgs : WithBodyWrite(i, obj)
    \/ \E i \in 1..Len(streams), arg \in BodySelectors : WithBodyRead(i, arg)
    \/ \E i \in 1..Len(streams), exc \in BOOLEAN : WithExit(i, exc)

Spec == Init /\ [][Next]_vars

\* ------------------------------------------------------------- properties
\* The stream the instance of the last operation wraps.
LastH == streams[last.i].wrapped_stream.n
DirectOps == {"read", "write", "__enter__", "__exit__"}
BodyOps == {"s.read", "s.write"}
Closes(calls) == { x \in DOMAIN calls : calls[x].m = "close" }

\* C1: the exit of a with-block calls close on the wrapped stream exactly
\* once and nothing else, whether the instance opened the stream or was
\* given it, and whether or not an exception is propagating; it raises
\* nothing and returns None, so the exception goes on; no other operation
\* of the instance calls close.
C1_ExitClosesOnce ==
    /\ last.op = "__exit__" =>
          /\ last.calls = <<Call("close", LastH, NoneVal, NoneVal, NoneVal, "")>>
          /\ handles[LastH].closed
          /\ last.error = "" /\ last.result = NoneVal
    /\ last.op \in (DirectOps \cup BodyOps) \ {"__exit__"} =>
          Closes(last.calls) = {}

\* C1 witness: a block on an instance that opened its stream, in which the
\* stream was used, has exited with an exception propagating.
C1_Witness ==
    /\ last.op = "__exit__" /\ last.exc
    /\ streams[last.i].opened_stream
    /\ handles[LastH].pos > 0 /\ handles[LastH].closed

\* C2: in "with SeaStream(...) as s", s is the SeaStream, so s.write and
\* s.read in the block reach the wrapped stream.
C2_AsTargetIsTheStream ==
    /\ \A i \in 1..Len(streams) :
          streams[i].scope = "in" => streams[i].as_target = SelfVal(i)
    /\ last.op \in BodyOps => last.error # "AttributeError"

\* The bytes an operation consumed or produced, as its caller sees them:
\* the bytes an integer read returned, the bytes handed to the decoder by a
\* type read, the bytes a successful write was given.
Consumed(l) ==
    IF l.op = "read" /\ l.arg.k = "int" /\ l.error = ""
    THEN Len(l.result.b)
    ELSE IF l.op = "read" /\ l.arg.k = "type" /\ l.calls # <<>>
    THEN Len(l.calls[1].ret.b)
    ELSE IF l.op = "write" /\ l.error = ""
    THEN Len(Rendered(l.arg).b)
    ELSE 0

\* The calls an operation needs: one read for a read with an integer or a
\* capable type, none for any other read, one write for a write, none for
\* enter, one close for exit.
NeededCalls(l) ==
    IF l.op = "read"
    THEN IF l.arg.k = "int" \/ (l.arg.k = "type" /\ has_from_bytes(l.arg.t)
                                   /\ has_struct(l.arg.t))
         THEN <<"read">> ELSE <<>>
    ELSE IF l.op = "write" THEN <<"write">>
    ELSE IF l.op = "__exit__" THEN <<"close">>
    ELSE <<>>

C3_Step ==
    last'.op \in DirectOps =>
       LET h == streams[last'.i].wrapped_stream.n
       IN /\ handles'[h].pos = handles[h].pos + Consumed(last')
          /\ [x \in DOMAIN last'.calls |-> last'.calls[x].m] = NeededCalls(last')
          /\ \A x \in DOMAIN last'.calls : last'.calls[x].h = h

\* C3: every operation on a SeaStream moves the position of the wrapped
\* stream by exactly the bytes it consumed or produced, and makes on the
\* stream only the one call it needs.
C3_PositionAdvance == [][C3_Step]_vars

\* C3 witness: a type was read from the middle of a stream.
C3_Witness ==
    /\ last.op = "read" /\ last.arg = TypeVal("TypeName")
    /\ last.calls # <<>> /\ Len(last.calls[1].ret.b) = 1
    /\ handles[LastH].pos = MaxLen

\* C4: read makes exactly one read call on the wrapped stream: read(n) for
\* an integer n, whose result it returns unchanged; read(size) for a
\* capable type, whose bytes, few or many, it hands to from_bytes once,
\* returning what from_bytes returns or raises.
C4_ReadDispatch ==
    last.op = "read" =>
       /\ last.arg.k = "int" =>
             /\ Len(last.calls) = 1
             /\ last.calls[1].m = "read" /\ last.calls[1].h = LastH
             /\ last.calls[1].arg = last.arg
             /\ last.result = last.calls[1].ret
             /\ last.error = last.calls[1].err
       /\ (last.arg.k = "type" /\ has_from_bytes(last.arg.t)
             /\ has_struct(last.arg.t)) =>
             /\ Len(last.calls) = 1
             /\ last.calls[1].m = "read" /\ last.calls[1].h = LastH
             /\ last.calls[1].arg = IntVal(struct_size(last.arg.t))
             /\ IF last.calls[1].err # ""
                THEN last.error = last.calls[1].err
                ELSE [err |-> last.error, val |-> last.result]
                        = from_bytes(last.arg.t, last.calls[1].ret.b)

\* C4 witness: a type of size 3 was read where fewer bytes were left, and
\* the short bytes were decoded.
C4_Witness ==
    /\ last.op = "read" /\ last.arg = TypeVal("DummySerializable")
    /\ last.calls # <<>> /\ last.calls[1].err = ""
    /\ Len(last.calls[1].ret.b) \in 1..2
    /\ last.result = StrVal(Foo)

IsBinary(mode) == mode.k = "str" /\ 98 \in Range(mode.b)
OnPath == last.op = "__init__" /\ last.arg.k \in VALID_PATH_TYPES
OpenedOnce ==
    /\ Len(last.calls) = 1
    /\ last.calls[1].m = "open"
    /\ last.calls[1].arg = last.arg /\ last.calls[1].mode = last.mode
InitErrors ==
    /\ last.mode.k # "str" => last.error = "TypeError"
    /\ (last.mode.k = "str" /\ ~IsBinary(last.mode)) => last.error = "ValueError"
    /\ ~IsBinary(last.mode) => last.calls = <<>> /\ last.self = NewSelf

\* C6 as stated: on a path, open is called once with the mode, and the
\* stream is stored and flagged as opened here, exactly when the mode is a
\* string with 'b'; other modes raise TypeError or ValueError with no call
\* to open and nothing stored.
C6_Original ==
    OnPath =>
       /\ IsBinary(last.mode) <=> OpenedOnce
       /\ IsBinary(last.mode) <=>
             (last.self.opened_stream /\ last.self.wrapped_stream.k = "stream")
       /\ InitErrors

\* C6 amended: on a path, open is called once with the mode exactly when
\* the mode is a string with 'b'; the stream it returns is stored and
\* flagged as opened here; when open raises, its error goes to the caller
\* and nothing is stored or flagged; other modes raise TypeError or
\* ValueError with no call to open and nothing stored.
C6_Amended ==
    OnPath =>
       /\ IsBinary(last.mode) <=> OpenedOnce
       /\ IsBinary(last.mode) =>
             IF last.calls[1].err = ""
             THEN /\ last.error = ""
                  /\ last.self = [wrapped_stream |-> last.calls[1].ret,
                                  opened_stream |-> TRUE]
                  /\ streams[last.i].wrapped_stream = last.calls[1].ret
                  /\ streams[last.i].opened_stream
             ELSE /\ last.error = last.calls[1].err
                  /\ last.self = NewSelf
       /\ InitErrors

\* C6 witness: a path object was opened with "wb" and the stream stored.
C6_Witness ==
    /\ OnPath /\ last.arg.k = "PathLike" /\ last.mode = StrVal(<<119, 98>>)
    /\ OpenedOnce /\ last.self.opened_stream
    /\ Len(streams) = last.i

C7_Step ==
    (last'.op = "read" /\ last'.arg.k \notin {"int", "type"}) =>
       /\ last'.error = "TypeError"
       /\ last'.calls = <<>>
       /\ handles' = handles

\* C7: read with an argument that is neither an integer nor a type raises
\* TypeError, makes no call on the wrapped stream and leaves its position
\* and its open or closed state as they were.
C7_InvalidSelector == [][C7_Step]_vars

\* C7 witness: read was given a string on an open, partly read stream.
C7_Witness ==
    /\ last.op = "read" /\ last.arg = StrVal(Foo)
    /\ last.error = "TypeError"
    /\ ~handles[LastH].closed /\ handles[LastH].pos = 1

\* C8: read with a type that lacks from_bytes or _struct raises TypeError,
\* and every other error of read is one the wrapped stream or the decoder
\* raised.
C8_IncapableTypeIsTypeError ==
    last.op = "read" =>
       /\ (last.arg.k = "type"
             /\ ~(has_from_bytes(last.arg.t) /\ has_struct(last.arg.t)))
             => last.error = "TypeError"
       /\ \/ last.error \in {"", "TypeError", "struct.error"}
          \/ last.calls # <<>> /\ last.error = last.calls[1].err

\* C9 as stated: no two instances wrap the same stream.
C9_Original ==
    \A i, j \in 1..Len(streams) :
       i # j => streams[i].wrapped_stream # streams[j].wrapped_stream

\* C9 amended: every instance wraps exactly one stream; several instances
\* may wrap a stream the caller passed to each of them, but at most one of
\* the instances wrapping a stream has it flagged as opened by itself.
C9_Amended ==
    /\ \A i \in 1..Len(streams) :
          /\ streams[i].wrapped_stream.k = "stream"
          /\ streams[i].wrapped_stream.n \in 1..Len(handles)
    /\ \A i, j \in 1..Len(streams) :
          (i # j /\ streams[i].wrapped_stream = streams[j].wrapped_stream)
             => ~(streams[i].opened_stream /\ streams[j].opened_stream)

\* C9 witness: a stream opened by one instance is also wrapped by another,
\* and a write through the one has moved the position the other sees.
C9_Witness ==
    \E i, j \in 1..Len(streams) :
       /\ i # j /\ streams[i].wrapped_stream = streams[j].wrapped_stream
       /\ streams[i].opened_stream /\ ~streams[j].opened_stream
       /\ last.op = "write" /\ last.i = j /\ last.error = ""

C10_Step ==
    /\ \A h \in 1..Len(handles) :
          /\ handles[h].closed => handles'[h].closed
          /\ (~handles[h].closed /\ handles'[h].closed)
                => last'.op \in {"__exit__", "close"}
    /\ \A i \in 1..Len(streams) :
          streams'[i].wrapped_stream = streams[i].wrapped_stream

\* C10: a wrapped stream goes from open to closed only, and only by the
\* exit of a with-block or a close call on the stream; no operation opens
\* a closed stream again or gives an instance another stream.
C10_OpenToClosedOnly == [][C10_Step]_vars

\* C10 witness: after the exit of a block closed the stream, the instance
\* was entered again and read from, and the stream stayed closed.
C10_Witness ==
    /\ last.op = "read" /\ last.error = "ValueError"
    /\ streams[last.i].scope = "in"
    /\ handles[LastH].closed

====
